---- MODULE Spec2Model ----
(***************************************************************************)
(* A model of examples/metrics.py: MetricCollector.run and the operations   *)
(* it calls (process_repo, aggregate, summarize, output_google_sheet), and  *)
(* of services/tasks/project/api/tasks.py: the POST /tasks handler.         *)
(*                                                                          *)
(* Python values are modelled as follows.                                   *)
(*   dict        [keys |-> <<k1, ..>>, map |-> [k \in {k1, ..} |-> value]]   *)
(*               (keys holds the insertion order, which iteration follows)   *)
(*   float       [type |-> "float", value |-> n]   (a whole number of days)  *)
(*   aggregated  [type |-> "dict", items |-> dict]  (the record aggregate    *)
(*               stores; the tag is what isinstance(value, dict) reads)      *)
(*   mean/median a reduced fraction [num |-> n, den |-> d]                   *)
(*   datetime    a day number                                               *)
(*   str (JSON)  [type |-> "str", value |-> s]                               *)
(***************************************************************************)
EXTENDS Integers, Sequences, FiniteSets, TLC

VARIABLES ALL_REPOS, source, metrics, untagged_issues, all_metrics,
          sheet_header, sheet_values, pc, org_i, repo_i, issues, issue_i,
          issue, plan_i, response, calls,
          tasks, reply

vars == <<ALL_REPOS, source, metrics, untagged_issues, all_metrics,
          sheet_header, sheet_values, pc, org_i, repo_i, issues, issue_i,
          issue, plan_i, response, calls, tasks, reply>>

(***************************************************************************)
(* Bounds of the model.                                                     *)
(***************************************************************************)
\* The most issues the data source holds in SpecTree.
MaxIssues == 3
\* The most issues that accompany the freely chosen issue in Spec.
MaxCompanions == 1

(***************************************************************************)
(* Program constants.                                                       *)
(***************************************************************************)
\* start_date='2020-01-01', as a day number.
StartDate == 1
\* end_date='2020-04-20', as a day number (day 111 of 2020).
EndDate == 111

None == [type |-> "None"]

ADMINS == {"admin"}
Authors == {"admin", "user"}
Categories == {"bug", "feature"}
Statuses == {"duplicate", "invalid"}

(***************************************************************************)
(* dict                                                                     *)
(***************************************************************************)
EmptyMap == [k \in {} |-> 0]
DictEmpty == [keys |-> <<>>, map |-> EmptyMap]
DictHas(d, k) == k \in DOMAIN d.map
DictSet(d, k, v) ==
    [keys |-> IF DictHas(d, k) THEN d.keys ELSE Append(d.keys, k),
     map  |-> [j \in DOMAIN d.map \cup {k} |-> IF j = k THEN v ELSE d.map[j]]]
DictPop(d, k) ==
    [keys |-> SelectSeq(d.keys, LAMBDA j : j # k),
     map  |-> [j \in DOMAIN d.map \ {k} |-> d.map[j]]]

(***************************************************************************)
(* The tree of nodes.                                                       *)
(***************************************************************************)
base_type == [nodes |-> DictEmpty, metrics |-> DictEmpty]

\* node['nodes'][key] of a defaultdict: the child, created when missing.
GetOrCreate(node, key) ==
    IF DictHas(node.nodes, key) THEN node
    ELSE [node EXCEPT !.nodes = DictSet(node.nodes, key, base_type)]

RECURSIVE NodeAt(_, _)
NodeAt(node, path) ==
    IF path = <<>> THEN node
    ELSE NodeAt(GetOrCreate(node, Head(path)).nodes.map[Head(path)], Tail(path))

RECURSIVE PutAt(_, _, _)
PutAt(node, path, new) ==
    IF path = <<>> THEN new
    ELSE LET n == GetOrCreate(node, Head(path))
         IN  [n EXCEPT !.nodes =
                 DictSet(n.nodes, Head(path),
                         PutAt(n.nodes.map[Head(path)], Tail(path), new))]

HasNode(node, path) ==
    \A k \in 1..Len(path) :
        DictHas(NodeAt(node, SubSeq(path, 1, k - 1)).nodes, path[k])

(***************************************************************************)
(* statistics                                                               *)
(***************************************************************************)
Abs(n) == IF n < 0 THEN -n ELSE n

RECURSIVE Gcd(_, _)
Gcd(a, b) == IF b = 0 THEN a ELSE Gcd(b, a % b)

Frac(n, d) ==
    LET g == Gcd(Abs(n), d) IN [num |-> n \div g, den |-> d \div g]

RECURSIVE Sum(_)
Sum(s) == IF s = <<>> THEN 0 ELSE Head(s) + Sum(Tail(s))

RECURSIVE Insert(_, _)
Insert(s, x) ==
    IF s = <<>> THEN <<x>>
    ELSE IF x < Head(s) THEN <<x>> \o s
    ELSE <<Head(s)>> \o Insert(Tail(s), x)

RECURSIVE sorted(_)
sorted(s) ==
    IF s = <<>> THEN <<>> ELSE Insert(sorted(SubSeq(s, 1, Len(s) - 1)), s[Len(s)])

RECURSIVE min(_)
min(s) ==
    IF Len(s) = 1 THEN s[1]
    ELSE LET m == min(Tail(s)) IN IF m < Head(s) THEN m ELSE Head(s)

RECURSIVE max(_)
max(s) ==
    IF Len(s) = 1 THEN s[1]
    ELSE LET m == max(Tail(s)) IN IF m > Head(s) THEN m ELSE Head(s)

mean(s) == Frac(Sum(s), Len(s))

median(s) ==
    LET data == sorted(s)
        n == Len(s)
    IN  IF n % 2 = 1 THEN Frac(data[(n \div 2) + 1], 1)
        ELSE Frac(data[n \div 2] + data[(n \div 2) + 1], 2)

(***************************************************************************)
(* Issue: the object Issue(issue_json, end_date) builds and process_events  *)
(* fills.  An issue of the data source is the record                        *)
(*   [url, author, created_at, closed, closed_at, category, status,         *)
(*    first_admin_comment, awaiting, pull_request, metrics]                 *)
(* where closed, closed_at, category, status, first_admin_comment, awaiting *)
(* and pull_request are what folding its timeline up to end_date yields;    *)
(* category "" and status "" stand for no recognized label.                 *)
(***************************************************************************)
get_delta_days(from, to) == to - from

get_issue_category(iss) == iss.category
get_issue_status(iss) == iss.status

\* The metrics the fold leaves on the issue: time_to_close exactly when the
\* issue is closed as of end_date.
process_events(iss) ==
    LET m1 == IF iss.closed
              THEN DictSet(DictEmpty, "time_to_close",
                           [type |-> "float",
                            value |-> get_delta_days(iss.created_at, iss.closed_at)])
              ELSE DictEmpty
        m2 == IF iss.closed /\ iss.pull_request
              THEN DictSet(m1, "time_to_close_pr", m1.map["time_to_close"])
              ELSE m1
        m3 == IF iss.awaiting
              THEN DictSet(m2, "time_awaiting_resolution",
                           [type |-> "float",
                            value |-> get_delta_days(iss.created_at, EndDate)])
              ELSE m2
    IN  [iss EXCEPT !.metrics = m3]

(***************************************************************************)
(* process_repo, one issue at a time.                                       *)
(***************************************************************************)
\* Excluded without the test of line 81.
Excluded_AuthorOnly(iss, end_date) == iss.author \in ADMINS

\* Lines 78-82: the two `continue` tests.
Excluded(iss, end_date) ==
    \/ iss.author \in ADMINS
    \/ iss.created_at > end_date

\* InWindow with the test of line 86 always passing.
InWindow_Always(iss, start_date) == TRUE

\* Line 86.
InWindow(iss, start_date) == iss.created_at >= start_date

\* Line 92.
Reportable(iss) == get_issue_status(iss) \notin {"duplicate", "invalid"}

\* CloseMetric without the test of line 93.
CloseMetric_NoAdminTest(st, issue_category) ==
    IF ~DictHas(st.issue.metrics, "time_to_close") THEN st
    ELSE LET time_to_close == st.issue.metrics.map["time_to_close"]
             popped == [st EXCEPT !.issue.metrics = DictPop(@, "time_to_close")]
         IN  IF ~Reportable(st.issue) THEN popped
             ELSE IF issue_category # ""
             THEN [popped EXCEPT !.issue.metrics =
                      DictSet(@, "time_to_close_" \o issue_category, time_to_close)]
             ELSE [popped EXCEPT !.untagged = Append(@, st.issue.url)]

\* Lines 89-97, on the pair [issue, untagged].
CloseMetric(st, issue_category) ==
    IF ~DictHas(st.issue.metrics, "time_to_close") THEN st
    ELSE LET time_to_close == st.issue.metrics.map["time_to_close"]
             popped == [st EXCEPT !.issue.metrics = DictPop(@, "time_to_close")]
         IN  IF ~Reportable(st.issue) THEN popped
             ELSE IF ~st.issue.first_admin_comment THEN popped
             ELSE IF issue_category # ""
             THEN [popped EXCEPT !.issue.metrics =
                      DictSet(@, "time_to_close_" \o issue_category, time_to_close)]
             ELSE [popped EXCEPT !.untagged = Append(@, st.issue.url)]

\* ResolutionMetric without the append of line 105.
ResolutionMetric_NotCollected(st, issue_category) ==
    IF ~DictHas(st.issue.metrics, "time_awaiting_resolution") THEN st
    ELSE LET resolution == st.issue.metrics.map["time_awaiting_resolution"]
             popped == [st EXCEPT !.issue.metrics =
                           DictPop(@, "time_awaiting_resolution")]
         IN  IF issue_category # ""
             THEN [popped EXCEPT !.issue.metrics =
                      DictSet(@, "time_awaiting_resolution_" \o issue_category,
                              resolution)]
             ELSE popped

\* Lines 99-105.
ResolutionMetric(st, issue_category) ==
    IF ~DictHas(st.issue.metrics, "time_awaiting_resolution") THEN st
    ELSE LET resolution == st.issue.metrics.map["time_awaiting_resolution"]
             popped == [st EXCEPT !.issue.metrics =
                           DictPop(@, "time_awaiting_resolution")]
         IN  IF issue_category # ""
             THEN [popped EXCEPT !.issue.metrics =
                      DictSet(@, "time_awaiting_resolution_" \o issue_category,
                              resolution)]
             ELSE [popped EXCEPT !.untagged = Append(@, st.issue.url)]

\* Lines 107-108.
PullRequestMetric(st) ==
    IF ~st.issue.first_admin_comment
    THEN [st EXCEPT !.issue.metrics = DictPop(@, "time_to_close_pr")]
    ELSE st

\* Lines 87-108: the issue's metrics and the blocking list after the block.
Categorize(iss, untagged) ==
    LET issue_category == get_issue_category(iss)
        st0 == [issue |-> iss, untagged |-> untagged]
    IN  PullRequestMetric(
            ResolutionMetric(CloseMetric(st0, issue_category), issue_category))

\* Line 110: nodes['nodes'][issue.url]['metrics'] = issue.metrics.
Attach(tree, repo_path, iss) ==
    LET path == Append(repo_path, iss.url)
    IN  PutAt(tree, path, [NodeAt(tree, path) EXCEPT !.metrics = iss.metrics])

\* StillOpen with the test of line 112 always passing.
StillOpen_Always(iss) == TRUE

\* Line 112.
StillOpen(iss) == ~iss.closed

\* SetTimeOpen storing a fresh mapping of time_open alone.
SetTimeOpen_Replace(tree, repo_path, iss, end_date) ==
    LET path == Append(repo_path, iss.url)
        time_open == get_delta_days(iss.created_at, end_date)
        node == NodeAt(tree, path)
    IN  PutAt(tree, path,
              [node EXCEPT !.metrics =
                  DictSet(DictEmpty, "time_open",
                          [type |-> "float", value |-> time_open])])

\* Lines 113-115.
SetTimeOpen(tree, repo_path, iss, end_date) ==
    LET path == Append(repo_path, iss.url)
        time_open == get_delta_days(iss.created_at, end_date)
        node == NodeAt(tree, path)
    IN  PutAt(tree, path,
              [node EXCEPT !.metrics =
                  DictSet(@, "time_open", [type |-> "float", value |-> time_open])])

(***************************************************************************)
(* aggregate                                                                *)
(***************************************************************************)
\* dict.items(), in insertion order.
DictItems(d) == [k \in 1..Len(d.keys) |-> <<d.keys[k], d.map[d.keys[k]]>>]

RECURSIVE Concat(_)
Concat(ss) == IF ss = <<>> THEN <<>> ELSE Head(ss) \o Concat(Tail(ss))

\* Lines 120-121: every (metric_id, value) of the children taken in `order`.
ChildItems(node, order) ==
    Concat([k \in 1..Len(order) |-> DictItems(node.nodes.map[order[k]].metrics)])

\* Lines 125-129: an aggregated record through its values, a scalar as a
\* one-element list.
Unwrap(value) ==
    IF value.type = "dict" THEN value.items.map["values"] ELSE <<value.value>>

\* The places of `items` that hold the first occurrence of their key.
FirstSeen(items) ==
    SelectSeq([j \in 1..Len(items) |-> j],
              LAMBDA j : \A h \in 1..(j - 1) : items[h][1] # items[j][1])

\* Collect with line 131 assigning the list where it extends it.
Collect_Overwrite(items) ==
    LET first == FirstSeen(items)
        last(k) == CHOOSE j \in 1..Len(items) :
                       /\ items[j][1] = k
                       /\ \A h \in (j + 1)..Len(items) : items[h][1] # k
    IN  [keys |-> [t \in 1..Len(first) |-> items[first[t]][1]],
         map  |-> [metric_id \in {items[j][1] : j \in 1..Len(items)} |->
                      Unwrap(items[last(metric_id)][2])]]

\* Lines 118-131: each metric_id, in the order first met, with the values that
\* the items extend its list with, one after the other.
Collect(items) ==
    LET first == FirstSeen(items)
    IN  [keys |-> [t \in 1..Len(first) |-> items[first[t]][1]],
         map  |-> [metric_id \in {items[j][1] : j \in 1..Len(items)} |->
                      Concat([j \in 1..Len(items) |->
                                 IF items[j][1] = metric_id
                                 THEN Unwrap(items[j][2]) ELSE <<>>])]]

\* Statistics with line 135 storing the values as collected.
Statistics_Unsorted(values) ==
    [type  |-> "dict",
     items |-> [keys |-> <<"values", "count", "min", "max", "mean", "median">>,
                map  |-> [values |-> values,
                          count  |-> Len(values),
                          min    |-> min(values),
                          max    |-> max(values),
                          mean   |-> mean(values),
                          median |-> median(values)]]]

\* Lines 134-141.
Statistics(values) ==
    [type  |-> "dict",
     items |-> [keys |-> <<"values", "count", "min", "max", "mean", "median">>,
                map  |-> [values |-> sorted(values),
                          count  |-> Len(values),
                          min    |-> min(values),
                          max    |-> max(values),
                          mean   |-> mean(values),
                          median |-> median(values)]]]

\* Lines 133-134.
RECURSIVE Store(_, _, _)
Store(node_metrics, ids, collected) ==
    IF ids = <<>> THEN node_metrics
    ELSE Store(DictSet(node_metrics, Head(ids), Statistics(collected.map[Head(ids)])),
               Tail(ids), collected)

AggregateIn(node, order) ==
    LET collected == Collect(ChildItems(node, order))
    IN  [node EXCEPT !.metrics = Store(@, collected.keys, collected)]

aggregate(node) == AggregateIn(node, node.nodes.keys)

(***************************************************************************)
(* summarize                                                                *)
(***************************************************************************)
\* The dict that assigning the items in turn builds: a key stands where it
\* was first assigned and holds what it was last assigned.
DictOf(items) ==
    LET n == Len(items)
        first == FirstSeen(items)
        last(k) == CHOOSE j \in 1..n :
                       /\ items[j][1] = k
                       /\ \A h \in (j + 1)..n : items[h][1] # k
    IN  [keys |-> [t \in 1..Len(first) |-> items[first[t]][1]],
         map  |-> [k \in {items[j][1] : j \in 1..n} |-> items[last(k)][2]]]

\* SummarizeMetric without the test of line 150.
SummarizeMetric_All(metric, values) ==
    LET kept == DictItems(values.items)
    IN  [j \in 1..Len(kept) |-> <<metric \o "_" \o kept[j][1], kept[j][2]>>]

\* Lines 149-151: the assignments one metric makes.
SummarizeMetric(metric, values) ==
    LET kept == SelectSeq(DictItems(values.items), LAMBDA kv : kv[1] # "values")
    IN  [j \in 1..Len(kept) |-> <<metric \o "_" \o kept[j][1], kept[j][2]>>]

\* Lines 144-151: the row summarize appends to all_metrics.
summarize(name, reporting_date, node) ==
    LET items == DictItems(node.metrics)
    IN  DictOf(<< <<"name", name>>, <<"date", reporting_date>> >>
               \o Concat([j \in 1..Len(items) |->
                             SummarizeMetric(items[j][1], items[j][2])]))

(***************************************************************************)
(* output_google_sheet                                                      *)
(***************************************************************************)
InSeq(s, x) == \E k \in 1..Len(s) : s[k] = x

\* Lines 166-167.
KnownCells(header, row_metrics) ==
    [j \in 1..Len(header) |->
        IF DictHas(row_metrics, header[j]) THEN row_metrics.map[header[j]] ELSE None]

\* NewCells without the test of line 170: every item extends both.
NewCells_All(st, items) ==
    [header |-> st.header \o [j \in 1..Len(items) |-> items[j][1]],
     row    |-> st.row \o [j \in 1..Len(items) |-> items[j][2]]]

\* Lines 169-172, on the pair [header, row]: the items whose key the header
\* lacks extend both (the keys of a dict are distinct, so that a key the
\* loop appends is not met again).
NewCells(st, items) ==
    LET new == SelectSeq(items, LAMBDA kv : ~InSeq(st.header, kv[1]))
    IN  [header |-> st.header \o [j \in 1..Len(new) |-> new[j][1]],
         row    |-> st.row \o [j \in 1..Len(new) |-> new[j][2]]]

\* Lines 160-172: the header and the rows that are written.
RECURSIVE SheetRows(_, _)
SheetRows(header, rows) ==
    IF rows = <<>> THEN [header |-> header, values |-> <<>>]
    ELSE LET r == NewCells([header |-> header,
                            row    |-> KnownCells(header, Head(rows))],
                           DictItems(Head(rows)))
             rest == SheetRows(r.header, Tail(rows))
         IN  [header |-> rest.header, values |-> <<r.row>> \o rest.values]

(***************************************************************************)
(* The inputs of a run: the configured repositories (ALL_REPOS) and what    *)
(* the data source answers for each of them (get_repo_issues).              *)
(***************************************************************************)
CreatedAts == {StartDate - 1, StartDate, EndDate, EndDate + 1}

\* Every issue the model draws: any author, any creation day around the
\* window, open or closed on a day between its creation and end_date, any
\* category, status, admin comment, pending resolution and kind.
IssueInputs ==
    {[url |-> "", author |-> a, created_at |-> c[1], closed |-> c[2],
      closed_at |-> c[3], category |-> cat, status |-> s,
      first_admin_comment |-> fac, awaiting |-> aw, pull_request |-> pr,
      metrics |-> DictEmpty] :
        a \in Authors,
        c \in {<<d, FALSE, d>> : d \in CreatedAts}
              \cup {<<d, TRUE, d>> : d \in CreatedAts \ {EndDate + 1}}
              \cup {<<d, TRUE, EndDate>> : d \in CreatedAts \ {EndDate + 1}},
        cat \in {""} \cup Categories,
        s \in {""} \cup Statuses,
        fac \in BOOLEAN, aw \in BOOLEAN, pr \in BOOLEAN}

\* The issues SpecTree fills the tree with: community issues of normal status
\* that an admin has commented on.
TreeInputs ==
    {i \in IssueInputs :
        /\ i.author = "user" /\ i.status = "" /\ i.first_admin_comment
        /\ ~i.pull_request
        /\ <<i.created_at, i.closed, i.closed_at, i.category, i.awaiting>> \in
             {<<StartDate, TRUE, EndDate, "bug", FALSE>>,
              <<StartDate, TRUE, StartDate, "bug", FALSE>>,
              <<StartDate, FALSE, StartDate, "feature", TRUE>>,
              <<StartDate - 1, FALSE, StartDate - 1, "", FALSE>>,
              <<EndDate, FALSE, EndDate, "", TRUE>>}}

\* The issues that accompany the freely chosen one in Spec.
CompanionInputs ==
    {i \in TreeInputs : i.created_at = StartDate /\ i.closed /\ i.closed_at = StartDate}
        \cup {i \in TreeInputs : i.created_at = EndDate}

TreeConfigs ==
    {<< [org |-> "org1", repos |-> <<"repoA", "repoB">>] >>,
     << [org |-> "org1", repos |-> <<"repoA">>],
        [org |-> "org2", repos |-> <<"repoB">>] >>}

IssueConfigs == {<< [org |-> "org1", repos |-> <<"repoA">>] >>}

RepoPaths(config) ==
    UNION {{<<config[o].org, config[o].repos[r]>> : r \in 1..Len(config[o].repos)} :
           o \in 1..Len(config)}

SeqsUpTo(S, n) == UNION {[1..k -> S] : k \in 0..n}

RECURSIVE TotalLen(_, _)
TotalLen(f, paths) ==
    IF paths = {} THEN 0
    ELSE LET p == CHOOSE q \in paths : TRUE
         IN  Len(f[p]) + TotalLen(f, paths \ {p})

\* The issue's url: unique within the run.
WithUrls(f) ==
    [p \in DOMAIN f |->
        [k \in 1..Len(f[p]) |->
            [f[p][k] EXCEPT !.url = p[1] \o "/" \o p[2] \o "/" \o ToString(k)]]]

Sources(config, S, n) ==
    {f \in [RepoPaths(config) -> SeqsUpTo(S, n)] : TotalLen(f, DOMAIN f) <= n}

InsertAt(s, k, x) == SubSeq(s, 1, k - 1) \o <<x>> \o SubSeq(s, k, Len(s))

\* One issue of IssueInputs among at most MaxCompanions of CompanionInputs.
IssueSources(config) ==
    UNION {UNION {{[f EXCEPT ![p] = InsertAt(f[p], k, w)] : w \in IssueInputs} :
                  k \in 1..(Len(f[p]) + 1)} :
           f \in Sources(config, CompanionInputs, MaxCompanions),
           p \in RepoPaths(config)}

\* The header row the sheet holds before the run writes to it.
ExistingHeaders == {<<>>, <<"date", "time_open_count", "name", "notes">>}

(***************************************************************************)
(* run                                                                      *)
(***************************************************************************)
\* Lines 48-61: the calls of the reporting loops, in order.
RepoCalls(org, repo) ==
    << [op |-> "aggregate", node |-> <<org, repo>>, name |-> repo],
       [op |-> "summarize", node |-> <<org, repo>>, name |-> repo] >>

\* OrgCalls with the organization aggregated ahead of its repositories.
OrgCalls_ParentFirst(tree, org) ==
    LET repos == tree.nodes.map[org].nodes.keys
    IN  << [op |-> "aggregate", node |-> <<org>>, name |-> org],
           [op |-> "summarize", node |-> <<org>>, name |-> org] >>
        \o Concat([r \in 1..Len(repos) |-> RepoCalls(org, repos[r])])

OrgCalls(tree, org) ==
    LET repos == tree.nodes.map[org].nodes.keys
    IN  Concat([r \in 1..Len(repos) |-> RepoCalls(org, repos[r])])
        \o << [op |-> "aggregate", node |-> <<org>>, name |-> org],
               [op |-> "summarize", node |-> <<org>>, name |-> org] >>

ReportCalls(tree) ==
    Concat([o \in 1..Len(tree.nodes.keys) |-> OrgCalls(tree, tree.nodes.keys[o])])
    \o << [op |-> "aggregate", node |-> <<>>, name |-> "global"],
           [op |-> "summarize", node |-> <<>>, name |-> "global"] >>

Org == ALL_REPOS[org_i].org
Repo == ALL_REPOS[org_i].repos[repo_i]
Called(op, node) == Append(calls, [op |-> op, node |-> node])

InitWith(configs) ==
    /\ ALL_REPOS \in configs
    /\ metrics = base_type
    /\ untagged_issues = <<>>
    /\ all_metrics = <<>>
    /\ sheet_header = <<>>
    /\ sheet_values = <<>>
    /\ response = <<>>
    /\ pc = "orgs"
    /\ org_i = 1
    /\ repo_i = 1
    /\ issues = <<>>
    /\ issue_i = 1
    /\ issue = None
    /\ plan_i = 1
    /\ calls = <<>>
    /\ tasks = <<>>
    /\ reply = None

\* Spec: one freely chosen issue, with companions, in one repository.
Init ==
    /\ InitWith(IssueConfigs)
    /\ source \in {WithUrls(f) : f \in IssueSources(ALL_REPOS)}

\* SpecTree: up to MaxIssues issues of TreeInputs over several repositories.
InitTree ==
    /\ InitWith(TreeConfigs)
    /\ source \in {WithUrls(f) : f \in Sources(ALL_REPOS, TreeInputs, MaxIssues)}

\* Lines 33-34.
RunOrg ==
    /\ pc = "orgs" /\ org_i <= Len(ALL_REPOS)
    /\ metrics' = GetOrCreate(metrics, Org)
    /\ repo_i' = 1
    /\ pc' = "repos"
    /\ UNCHANGED <<tasks, reply>>
    /\ UNCHANGED <<ALL_REPOS, source, untagged_issues, all_metrics, sheet_header,
                   sheet_values, org_i, issues, issue_i, issue, plan_i, response,
                   calls>>

\* Lines 36-39 and 70-73: the repository's node, then process_repo fetches.
RunRepo ==
    /\ pc = "repos" /\ repo_i <= Len(ALL_REPOS[org_i].repos)
    /\ metrics' = PutAt(metrics, <<Org, Repo>>, NodeAt(metrics, <<Org, Repo>>))
    /\ issues' = source[<<Org, Repo>>]
    /\ issue_i' = 1
    /\ calls' = Called("process_repo", <<Org, Repo>>)
    /\ pc' = "issues"
    /\ UNCHANGED <<tasks, reply>>
    /\ UNCHANGED <<ALL_REPOS, source, untagged_issues, all_metrics, sheet_header,
                   sheet_values, org_i, repo_i, issue, plan_i, response>>

\* Line 36, exhausted: the next organization.
RunReposDone ==
    /\ pc = "repos" /\ repo_i > Len(ALL_REPOS[org_i].repos)
    /\ org_i' = org_i + 1
    /\ pc' = "orgs"
    /\ UNCHANGED <<tasks, reply>>
    /\ UNCHANGED <<ALL_REPOS, source, metrics, untagged_issues, all_metrics,
                   sheet_header, sheet_values, repo_i, issues, issue_i, issue,
                   plan_i, response, calls>>

\* Lines 75-110: one issue, up to the attachment of its metrics.
ProcessIssue ==
    /\ pc = "issues" /\ issue_i <= Len(issues)
    /\ LET iss == issues[issue_i]
       IN  IF Excluded(iss, EndDate)
           THEN /\ issue_i' = issue_i + 1
                /\ UNCHANGED <<metrics, untagged_issues, issue, pc>>
           ELSE LET processed == process_events(iss)
                    st == IF InWindow(processed, StartDate)
                          THEN Categorize(processed, untagged_issues)
                          ELSE [issue |-> processed, untagged |-> untagged_issues]
                IN  /\ metrics' = IF InWindow(processed, StartDate)
                                  THEN Attach(metrics, <<Org, Repo>>, st.issue)
                                  ELSE metrics
                    /\ untagged_issues' = st.untagged
                    /\ issue' = st.issue
                    /\ pc' = "time_open"
                    /\ UNCHANGED issue_i
    /\ UNCHANGED <<tasks, reply>>
    /\ UNCHANGED <<ALL_REPOS, source, all_metrics, sheet_header, sheet_values,
                   org_i, repo_i, issues, plan_i, response, calls>>

\* Lines 112-115: time_open of an issue that is still open.
ProcessTimeOpen ==
    /\ pc = "time_open"
    /\ metrics' = IF StillOpen(issue)
                  THEN SetTimeOpen(metrics, <<Org, Repo>>, issue, EndDate)
                  ELSE metrics
    /\ issue' = None
    /\ issue_i' = issue_i + 1
    /\ pc' = "issues"
    /\ UNCHANGED <<tasks, reply>>
    /\ UNCHANGED <<ALL_REPOS, source, untagged_issues, all_metrics, sheet_header,
                   sheet_values, org_i, repo_i, issues, plan_i, response, calls>>

\* Line 75, exhausted: process_repo returns.
ProcessRepoReturn ==
    /\ pc = "issues" /\ issue_i > Len(issues)
    /\ repo_i' = repo_i + 1
    /\ pc' = "repos"
    /\ UNCHANGED <<tasks, reply>>
    /\ UNCHANGED <<ALL_REPOS, source, metrics, untagged_issues, all_metrics,
                   sheet_header, sheet_values, org_i, issues, issue_i, issue,
                   plan_i, response, calls>>

\* RunAbort without the return of line 46.
RunAbort_FallThrough ==
    /\ pc = "orgs" /\ org_i > Len(ALL_REPOS)
    /\ untagged_issues # <<>>
    /\ plan_i' = 1
    /\ pc' = "report"
    /\ UNCHANGED <<tasks, reply>>
    /\ UNCHANGED <<ALL_REPOS, source, metrics, untagged_issues, all_metrics,
                   sheet_header, sheet_values, org_i, repo_i, issues, issue_i,
                   issue, response, calls>>

\* Lines 42-46: untagged issues end the run.
RunAbort ==
    /\ pc = "orgs" /\ org_i > Len(ALL_REPOS)
    /\ untagged_issues # <<>>
    /\ pc' = "aborted"
    /\ UNCHANGED <<tasks, reply>>
    /\ UNCHANGED <<ALL_REPOS, source, metrics, untagged_issues, all_metrics,
                   sheet_header, sheet_values, org_i, repo_i, issues, issue_i,
                   issue, plan_i, response, calls>>

\* Line 42, no untagged issue: on to the reporting loops.
RunReport ==
    /\ pc = "orgs" /\ org_i > Len(ALL_REPOS)
    /\ untagged_issues = <<>>
    /\ plan_i' = 1
    /\ pc' = "report"
    /\ UNCHANGED <<tasks, reply>>
    /\ UNCHANGED <<ALL_REPOS, source, metrics, untagged_issues, all_metrics,
                   sheet_header, sheet_values, org_i, repo_i, issues, issue_i,
                   issue, response, calls>>

\* Lines 54, 57 and 60.
Aggregate ==
    /\ pc = "report" /\ plan_i <= Len(ReportCalls(metrics))
    /\ LET call == ReportCalls(metrics)[plan_i]
       IN  /\ call.op = "aggregate"
           /\ metrics' = PutAt(metrics, call.node, aggregate(NodeAt(metrics, call.node)))
           /\ calls' = Called("aggregate", call.node)
    /\ plan_i' = plan_i + 1
    /\ UNCHANGED <<tasks, reply>>
    /\ UNCHANGED <<ALL_REPOS, source, untagged_issues, all_metrics, sheet_header,
                   sheet_values, pc, org_i, repo_i, issues, issue_i, issue,
                   response>>

\* Lines 55, 58 and 61.
Summarize ==
    /\ pc = "report" /\ plan_i <= Len(ReportCalls(metrics))
    /\ LET call == ReportCalls(metrics)[plan_i]
       IN  /\ call.op = "summarize"
           /\ all_metrics' =
                  Append(all_metrics,
                         summarize(call.name, EndDate, NodeAt(metrics, call.node)))
           /\ calls' = Called("summarize", call.node)
    /\ plan_i' = plan_i + 1
    /\ UNCHANGED <<tasks, reply>>
    /\ UNCHANGED <<ALL_REPOS, source, metrics, untagged_issues, sheet_header,
                   sheet_values, pc, org_i, repo_i, issues, issue_i, issue,
                   response>>

\* Lines 65 and 155-182: the sheet's header row is read, extended and written
\* back, and the rows are appended.
OutputGoogleSheet ==
    /\ pc = "report" /\ plan_i > Len(ReportCalls(metrics))
    /\ \E header \in ExistingHeaders :
           LET out == SheetRows(header, all_metrics)
           IN  /\ response' = header
               /\ sheet_header' = out.header
               /\ sheet_values' = sheet_values \o out.values
    /\ calls' = Called("output_google_sheet", <<>>)
    /\ pc' = "done"
    /\ UNCHANGED <<tasks, reply>>
    /\ UNCHANGED <<ALL_REPOS, source, metrics, untagged_issues, all_metrics,
                   org_i, repo_i, issues, issue_i, issue, plan_i>>

Next ==
    \/ RunOrg
    \/ RunRepo
    \/ RunReposDone
    \/ ProcessIssue
    \/ ProcessTimeOpen
    \/ ProcessRepoReturn
    \/ RunAbort
    \/ RunReport
    \/ Aggregate
    \/ Summarize
    \/ OutputGoogleSheet

Spec == Init /\ [][Next]_vars

SpecTree == InitTree /\ [][Next]_vars

(***************************************************************************)
(* services/tasks/project/api/tasks.py: POST /tasks.                        *)
(* tasks holds the rows of the tasks table in the order of their ids, reply *)
(* the request last served with the response it was given.                  *)
(***************************************************************************)
Str(s) == [type |-> "str", value |-> s]
Creators == {Str("anshul"), Str("another")}
Links == {Str("anshulsinghal.me"), Str("another.com"), Str("twilio.com")}

\* A JSON object with the given creator and link, None standing for a key
\* the object does not have.
Payload(creator, link) ==
    [k \in (IF creator = None THEN {} ELSE {"creator"})
           \cup (IF link = None THEN {} ELSE {"link"}) |->
        IF k = "creator" THEN creator ELSE link]

\* The request bodies: every object over creator and link, the empty object
\* among them, and an object of a foreign key.
PostData ==
    {Payload(c, l) : c \in Creators \cup {None}, l \in Links \cup {None}}
    \cup {[phone |-> Str("999999999")]}

\* dict.get(key): None for a missing key (lines 44-45).
Get(post_data, key) ==
    IF key \in DOMAIN post_data THEN post_data[key] ELSE None

\* Task(creator=creator, link=link) (line 49).
Task(creator, link) == [creator |-> creator, link |-> link]

\* The tasks table refuses a row without creator or link: the commit of line
\* 50 raises exc.IntegrityError.
IntegrityError(task) == task.creator = None \/ task.link = None

\* Task.query.filter_by(link=link) without its condition: every row.
filter_by_All(rows, link) == rows

\* Task.query.filter_by(link=link) (line 47).
filter_by(rows, link) == SelectSeq(rows, LAMBDA task : task.link = link)

\* .first() (line 47): the first row, or None.
first(rows) == IF rows = <<>> THEN None ELSE rows[1]

\* jsonify(response_object), code, beside the request it answers.
Jsonify(post_data, status, message, code) ==
    [post_data |-> post_data, status |-> status, message |-> message,
     code |-> code]

\* Lines 33-61.
AddSingleTask ==
    /\ \E post_data \in PostData :
           IF post_data = <<>>
           THEN /\ reply' = Jsonify(post_data, "fail", "Invalid payload.", 400)
                /\ UNCHANGED tasks
           ELSE LET creator == Get(post_data, "creator")
                    link == Get(post_data, "link")
                    task == first(filter_by(tasks, link))
                IN  IF task = None
                    THEN IF IntegrityError(Task(creator, link))
                         THEN /\ reply' = Jsonify(post_data, "fail",
                                                  "Invalid payload.", 400)
                              /\ UNCHANGED tasks
                         ELSE /\ tasks' = Append(tasks, Task(creator, link))
                              /\ reply' = Jsonify(post_data, "success",
                                                  link.value \o " was added!", 201)
                    ELSE /\ reply' = Jsonify(post_data, "fail",
                                             "Sorry. That link already exists.", 400)
                         /\ UNCHANGED tasks
    /\ UNCHANGED <<ALL_REPOS, source, metrics, untagged_issues, all_metrics,
                   sheet_header, sheet_values, pc, org_i, repo_i, issues,
                   issue_i, issue, plan_i, response, calls>>

\* The service starts on an empty table; the collector does not run.
InitTasks ==
    /\ InitWith(IssueConfigs)
    /\ source = [p \in RepoPaths(ALL_REPOS) |-> <<>>]

NextTasks == AddSingleTask

SpecTasks == InitTasks /\ [][NextTasks]_vars

(***************************************************************************)
(* What the properties below speak of.                                      *)
(***************************************************************************)
\* An issue of the data source: its repository and its place in the list.
IssueRefs ==
    UNION {{<<p, k>> : k \in 1..Len(source[p])} : p \in DOMAIN source}
IssueOf(ref) == source[ref[1]][ref[2]]

\* process_repo has been called for the repository and is past the issue.
Processed(ref) ==
    /\ InSeq(calls, [op |-> "process_repo", node |-> ref[1]])
    /\ (pc \in {"issues", "time_open"} /\ ref[1] = <<Org, Repo>>) => ref[2] < issue_i

\* Every repository has been processed.
AllProcessed ==
    \/ pc \in {"report", "done", "aborted"}
    \/ pc = "orgs" /\ org_i > Len(ALL_REPOS)

LeafPath(ref) == Append(ref[1], IssueOf(ref).url)
HasLeaf(ref) == HasNode(metrics, LeafPath(ref))
LeafMetrics(ref) == NodeAt(metrics, LeafPath(ref)).metrics
LeafKeys(ref) == IF HasLeaf(ref) THEN DOMAIN LeafMetrics(ref).map ELSE {}

\* The nodes above the issues that the tree holds.
OrgPaths == {<<o>> : o \in DOMAIN metrics.nodes.map}
TreeRepoPaths ==
    UNION {{<<o, r>> : r \in DOMAIN metrics.nodes.map[o].nodes.map} :
           o \in DOMAIN metrics.nodes.map}
InnerPaths == {<<>>} \cup OrgPaths \cup TreeRepoPaths

IsPrefix(a, b) == Len(a) <= Len(b) /\ SubSeq(b, 1, Len(a)) = a

CloseKeys == {"time_to_close"} \cup {"time_to_close_" \o c : c \in Categories}
OpCalls(op) == {j \in 1..Len(calls) : calls[j].op = op}
ReportOps == {"aggregate", "summarize", "output_google_sheet"}
NoReport ==
    /\ all_metrics = <<>>
    /\ sheet_values = <<>> /\ sheet_header = <<>>
    /\ \A j \in 1..Len(calls) : calls[j].op \notin ReportOps
    /\ \A p \in InnerPaths : NodeAt(metrics, p).metrics = DictEmpty

\* The issue passes lines 78-82: process_events runs on it.
Gated(iss) == iss.author \in {"admin"} \/ iss.created_at > EndDate

(***************************************************************************)
(* C1: when untagged issues are found once every repository has been        *)
(* processed, the run returns without a report: aggregate, summarize and    *)
(* output_google_sheet are never called, all_metrics stays empty and        *)
(* nothing is written to the sheet.                                         *)
(***************************************************************************)
C1_AbortEmitsNoReport ==
    (AllProcessed /\ untagged_issues # <<>>) =>
        /\ pc \in {"orgs", "aborted"}
        /\ NoReport

\* An aborted run over two repositories whose tree holds metrics to report.
C1_Witness ==
    /\ pc = "aborted"
    /\ Cardinality(OpCalls("process_repo")) = 2
    /\ \E ref \in IssueRefs :
           /\ IssueOf(ref).url \notin {untagged_issues[j] : j \in 1..Len(untagged_issues)}
           /\ "time_to_close_bug" \in LeafKeys(ref)

(***************************************************************************)
(* C2 as stated: for every processed issue on which process_events left a   *)
(* time_to_close, a time_to_close metric is on the issue's node if and only *)
(* if its status is not duplicate or invalid and its category is            *)
(* recognized.                                                              *)
(***************************************************************************)
LeftTimeToClose(iss) == DictHas(process_events(iss).metrics, "time_to_close")

C2_Original ==
    \A ref \in IssueRefs :
        LET iss == IssueOf(ref)
        IN  (Processed(ref) /\ ~Gated(iss) /\ LeftTimeToClose(iss)) =>
                ((LeafKeys(ref) \cap CloseKeys # {}) <=>
                    (iss.status \notin {"duplicate", "invalid"} /\ iss.category # ""))

(***************************************************************************)
(* C2 as amended: for every processed issue on which process_events left a  *)
(* time_to_close, the metric time_to_close_<category> is on the issue's     *)
(* node if and only if its status is not duplicate or invalid, its category *)
(* is recognized, an admin has commented on it and it was created on or     *)
(* after start_date; it then carries the issue's days to close, and no      *)
(* other time_to_close key is on the node.                                  *)
(***************************************************************************)
C2_TimeToClose ==
    \A ref \in IssueRefs :
        LET iss == IssueOf(ref)
            kept == /\ iss.status \notin {"duplicate", "invalid"}
                    /\ iss.category # ""
                    /\ iss.first_admin_comment
                    /\ iss.created_at >= StartDate
        IN  (Processed(ref) /\ ~Gated(iss) /\ LeftTimeToClose(iss)) =>
                /\ (LeafKeys(ref) \cap CloseKeys # {}) <=> kept
                /\ kept =>
                      /\ LeafKeys(ref) \cap CloseKeys = {"time_to_close_" \o iss.category}
                      /\ LeafMetrics(ref).map["time_to_close_" \o iss.category]
                            = process_events(iss).metrics.map["time_to_close"]

\* Both sides of the equivalence: a closed issue whose node holds
\* time_to_close_bug, and a closed, tagged issue of normal status whose node
\* holds no time_to_close metric because no admin commented on it.
C2_Witness ==
    /\ \E ref \in IssueRefs :
           /\ Processed(ref) /\ IssueOf(ref).closed
           /\ "time_to_close_bug" \in LeafKeys(ref)
    /\ \E ref \in IssueRefs :
           /\ Processed(ref) /\ ~Gated(IssueOf(ref)) /\ IssueOf(ref).closed
           /\ IssueOf(ref).status = "" /\ IssueOf(ref).category = "feature"
           /\ IssueOf(ref).created_at >= StartDate
           /\ ~IssueOf(ref).first_admin_comment
           /\ HasLeaf(ref) /\ LeafKeys(ref) \cap CloseKeys = {}

(***************************************************************************)
(* C3 as stated: every untagged issue that holds a time_to_close or a       *)
(* time_awaiting_resolution after process_events is collected into          *)
(* untagged_issues, and a run with such an issue produces no report.        *)
(***************************************************************************)
Untagged(iss) == iss.category = ""
Pending(iss) ==
    \/ LeftTimeToClose(iss)
    \/ DictHas(process_events(iss).metrics, "time_awaiting_resolution")
Collected(iss) == \E j \in 1..Len(untagged_issues) : untagged_issues[j] = iss.url

C3_Original ==
    \A ref \in IssueRefs :
        LET iss == IssueOf(ref)
        IN  (Processed(ref) /\ ~Gated(iss) /\ Untagged(iss) /\ Pending(iss)) =>
                /\ Collected(iss)
                /\ AllProcessed => (pc \in {"orgs", "aborted"} /\ NoReport)

(***************************************************************************)
(* C3 as amended: every untagged issue created on or after start_date that  *)
(* holds, after process_events, a time_awaiting_resolution, or a            *)
(* time_to_close while its status is not duplicate or invalid and an admin  *)
(* has commented on it, is collected into untagged_issues, and a run with   *)
(* such an issue produces no report.                                        *)
(***************************************************************************)
C3_Blocking ==
    \A ref \in IssueRefs :
        LET iss == IssueOf(ref)
            blocking ==
                /\ Untagged(iss) /\ iss.created_at >= StartDate
                /\ \/ DictHas(process_events(iss).metrics, "time_awaiting_resolution")
                   \/ /\ LeftTimeToClose(iss)
                      /\ iss.status \notin {"duplicate", "invalid"}
                      /\ iss.first_admin_comment
        IN  (Processed(ref) /\ ~Gated(iss) /\ blocking) =>
                /\ Collected(iss)
                /\ AllProcessed => (pc \in {"orgs", "aborted"} /\ NoReport)

\* A run aborted for an untagged issue that an admin commented on and that
\* was closed with a normal status, with no resolution pending.
C3_Witness ==
    /\ pc = "aborted"
    /\ \E ref \in IssueRefs :
           /\ Untagged(IssueOf(ref)) /\ IssueOf(ref).closed
           /\ ~IssueOf(ref).awaiting
           /\ Collected(IssueOf(ref))

(***************************************************************************)
(* C4: every processed issue that is open at end_date has time_open on its  *)
(* node, equal to the days from created_at to end_date and never negative,  *)
(* and no time_to_close metric, plain or suffixed, on the same node; an     *)
(* issue that is closed never receives time_open.                           *)
(***************************************************************************)
C4_TimeOpen ==
    \A ref \in IssueRefs :
        LET iss == IssueOf(ref)
        IN  Processed(ref) =>
                /\ (~Gated(iss) /\ ~iss.closed) =>
                      /\ "time_open" \in LeafKeys(ref)
                      /\ LeafMetrics(ref).map["time_open"].value
                            = EndDate - iss.created_at
                      /\ LeafMetrics(ref).map["time_open"].value >= 0
                      /\ LeafKeys(ref) \cap (CloseKeys \cup {"time_to_close_pr"}) = {}
                /\ iss.closed => "time_open" \notin LeafKeys(ref)

\* An open issue whose node holds time_open beside another metric, and a
\* closed issue whose node holds a time_to_close metric and no time_open.
C4_Witness ==
    /\ \E ref \in IssueRefs :
           /\ Processed(ref) /\ ~IssueOf(ref).closed
           /\ {"time_open", "time_awaiting_resolution_bug"} \subseteq LeafKeys(ref)
    /\ \E ref \in IssueRefs :
           /\ Processed(ref) /\ IssueOf(ref).closed
           /\ "time_to_close_bug" \in LeafKeys(ref)

(***************************************************************************)
(* C7: an issue whose author is an admin, or whose created_at is after      *)
(* end_date, is excluded entirely: once processed, no node keyed by its url *)
(* exists anywhere in the tree, it is never in untagged_issues, and at the  *)
(* repository, the organization and the global level every metric counts    *)
(* exactly the issues beneath that are not excluded and hold the metric.    *)
(***************************************************************************)
Beneath(path) == {ref \in IssueRefs : IsPrefix(path, ref[1])}
Aggregated(path) == \E j \in OpCalls("aggregate") : calls[j].node = path

C7_Excluded ==
    /\ \A ref \in IssueRefs :
          (Processed(ref) /\ Gated(IssueOf(ref))) =>
              /\ \A p \in InnerPaths :
                    ~DictHas(NodeAt(metrics, p).nodes, IssueOf(ref).url)
              /\ ~Collected(IssueOf(ref))
    /\ \A p \in InnerPaths :
          Aggregated(p) =>
              \A m \in DOMAIN NodeAt(metrics, p).metrics.map :
                  NodeAt(metrics, p).metrics.map[m].items.map["count"]
                    = Cardinality({ref \in Beneath(p) :
                                      ~Gated(IssueOf(ref)) /\ m \in LeafKeys(ref)})

\* A finished run that processed an issue created after end_date and still
\* open, and an admin's closed issue, beside an issue that is reported.
C7_Witness ==
    /\ pc = "done"
    /\ \E ref \in IssueRefs :
           /\ Gated(IssueOf(ref))
           /\ \/ IssueOf(ref).created_at > EndDate /\ IssueOf(ref).author = "user"
              \/ /\ IssueOf(ref).author = "admin" /\ IssueOf(ref).closed
                 /\ IssueOf(ref).created_at = StartDate
    /\ DictHas(metrics.metrics, "time_to_close_bug")

(***************************************************************************)
(* C8: an issue created before start_date that is not excluded gets no      *)
(* event-derived metric and is never added to untagged_issues; if it is     *)
(* still open its node holds the single metric time_open, and if it is      *)
(* closed no node is created for it.                                        *)
(***************************************************************************)
C8_BeforeStart ==
    \A ref \in IssueRefs :
        LET iss == IssueOf(ref)
        IN  (Processed(ref) /\ ~Gated(iss) /\ iss.created_at < StartDate) =>
                /\ ~Collected(iss)
                /\ ~iss.closed =>
                      (HasLeaf(ref) /\ LeafMetrics(ref).keys = <<"time_open">>)
                /\ iss.closed => ~HasLeaf(ref)

\* An open, untagged issue created before start_date with a resolution
\* pending, on a node that holds time_open alone.
C8_Witness ==
    \E ref \in IssueRefs :
        /\ Processed(ref) /\ ~Gated(IssueOf(ref))
        /\ IssueOf(ref).created_at < StartDate
        /\ ~IssueOf(ref).closed /\ IssueOf(ref).awaiting /\ Untagged(IssueOf(ref))
        /\ LeafKeys(ref) = {"time_open"}

(***************************************************************************)
(* C5: after a completed run, at every organization node and at the global  *)
(* node (and at every repository node) the record of each metric is the     *)
(* statistics of all the issue values of that metric beneath the node:      *)
(* values is their ascending arrangement, count their number, min and max   *)
(* their least and greatest, mean their sum over their number, median the   *)
(* middle of the arrangement; the metric names are those found beneath; and *)
(* with one organization the global aggregate is the organization's.        *)
(***************************************************************************)
RECURSIVE SumOver(_, _)
SumOver(refs, m) ==
    IF refs = {} THEN 0
    ELSE LET ref == CHOOSE r \in refs : TRUE
         IN  LeafMetrics(ref).map[m].value + SumOver(refs \ {ref}, m)

StatisticsOf(rec, refs, m) ==
    LET n == Cardinality(refs)
        val(ref) == LeafMetrics(ref).map[m].value
    IN  /\ n > 0
        /\ rec.count = n
        /\ Len(rec.values) = n
        /\ \A j \in 1..(n - 1) : rec.values[j] <= rec.values[j + 1]
        /\ \A ref \in refs :
              Cardinality({j \in 1..n : rec.values[j] = val(ref)})
                = Cardinality({r \in refs : val(r) = val(ref)})
        /\ \E ref \in refs : rec.min = val(ref)
        /\ \A ref \in refs : rec.min <= val(ref)
        /\ \E ref \in refs : rec.max = val(ref)
        /\ \A ref \in refs : rec.max >= val(ref)
        /\ rec.mean.den > 0
        /\ rec.mean.num * n = SumOver(refs, m) * rec.mean.den
        /\ rec.median.den > 0
        /\ 2 * rec.median.num
              = (rec.values[(n + 1) \div 2] + rec.values[(n \div 2) + 1]) * rec.median.den

C5_Aggregates ==
    pc = "done" =>
        /\ \A p \in InnerPaths :
              LET node == NodeAt(metrics, p)
              IN  /\ DOMAIN node.metrics.map = UNION {LeafKeys(ref) : ref \in Beneath(p)}
                  /\ \A m \in DOMAIN node.metrics.map :
                        /\ node.metrics.map[m].type = "dict"
                        /\ StatisticsOf(node.metrics.map[m].items.map,
                                        {ref \in Beneath(p) : m \in LeafKeys(ref)}, m)
        /\ Len(ALL_REPOS) = 1 =>
              metrics.metrics.map = NodeAt(metrics, <<ALL_REPOS[1].org>>).metrics.map

\* A completed run over two organizations whose global node merges three
\* values of one metric, and two of them come from one organization.
C5_Witness ==
    /\ pc = "done"
    /\ Len(ALL_REPOS) = 2
    /\ \E m \in DOMAIN metrics.metrics.map :
           /\ metrics.metrics.map[m].items.map["count"] = 3
           /\ \E o \in OrgPaths :
                 /\ m \in DOMAIN NodeAt(metrics, o).metrics.map
                 /\ NodeAt(metrics, o).metrics.map[m].items.map["count"] = 2

(***************************************************************************)
(* C6: aggregate is order-independent: for every node of the tree,          *)
(* aggregating its children in any permutation of their iteration order     *)
(* gives every metric the same record (values, count, min, max, mean and    *)
(* median).                                                                 *)
(***************************************************************************)
Permuted(keys) ==
    {[j \in 1..Len(keys) |-> keys[f[j]]] : f \in Permutations(1..Len(keys))}

C6_OrderIndependent ==
    \A p \in InnerPaths :
        LET node == NodeAt(metrics, p)
        IN  \A order \in Permuted(node.nodes.keys) :
                AggregateIn(node, order).metrics.map = aggregate(node).metrics.map

\* A repository whose issues hold one metric with values that arrive in
\* descending order, and an organization whose repositories do.
C6_Witness ==
    /\ \E p \in TreeRepoPaths, m \in {"time_open", "time_to_close_bug"} :
           LET node == NodeAt(metrics, p)
               keys == node.nodes.keys
           IN  /\ Len(keys) >= 2
               /\ DictHas(node.nodes.map[keys[1]].metrics, m)
               /\ DictHas(node.nodes.map[keys[2]].metrics, m)
               /\ node.nodes.map[keys[1]].metrics.map[m].value
                    > node.nodes.map[keys[2]].metrics.map[m].value
               /\ Aggregated(p)

(***************************************************************************)
(* C9: aggregation is leaves-before-parents and once per node: a repository *)
(* node is aggregated only after every repository has been processed, an    *)
(* organization node only after all of its repository nodes, the global     *)
(* node only after every organization node, and no node is aggregated       *)
(* twice.                                                                   *)
(***************************************************************************)
AggregatedAt(path) == {j \in OpCalls("aggregate") : calls[j].node = path}

C9_LeavesBeforeParents ==
    /\ OpCalls("aggregate") # {} =>
          /\ AllProcessed /\ pc \in {"report", "done"}
          /\ \A p \in RepoPaths(ALL_REPOS) :
                \E h \in OpCalls("process_repo") :
                    calls[h].node = p /\ \A j \in OpCalls("aggregate") : h < j
    /\ \A j \in OpCalls("aggregate") :
          /\ AggregatedAt(calls[j].node) = {j}
          /\ \A p \in InnerPaths :
                (Len(p) = Len(calls[j].node) + 1 /\ IsPrefix(calls[j].node, p)) =>
                    \E h \in AggregatedAt(p) : h < j
    /\ pc = "done" => \A p \in InnerPaths : AggregatedAt(p) # {}

\* A completed run over two organizations, one repository each, with issues.
C9_Witness ==
    /\ pc = "done"
    /\ Cardinality(OrgPaths) = 2
    /\ Cardinality(OpCalls("aggregate")) = 5
    /\ DictHas(metrics.metrics, "time_open")

(***************************************************************************)
(* C10: every summarize call appends exactly one row, whose keys are name,  *)
(* date and, for every metric on the node, exactly <metric>_min,            *)
(* <metric>_max, <metric>_mean, <metric>_median and <metric>_count carrying *)
(* the node's values of those statistics; the values sequence is never in   *)
(* the row.                                                                 *)
(***************************************************************************)
RowStats == {"min", "max", "mean", "median", "count"}
SummarizeCalls == SelectSeq(calls, LAMBDA c : c.op = "summarize")
NodeName(path) == IF path = <<>> THEN "global" ELSE path[Len(path)]

C10_SummaryRow ==
    /\ Len(all_metrics) = Len(SummarizeCalls)
    /\ \A j \in 1..Len(all_metrics) :
          LET row == all_metrics[j]
              node == NodeAt(metrics, SummarizeCalls[j].node)
              names == DOMAIN node.metrics.map
          IN  /\ DOMAIN row.map =
                    {"name", "date"} \cup {m \o "_" \o st : m \in names, st \in RowStats}
              /\ Len(row.keys) = 2 + 5 * Cardinality(names)
              /\ {row.keys[k] : k \in 1..Len(row.keys)} = DOMAIN row.map
              /\ row.map["name"] = NodeName(SummarizeCalls[j].node)
              /\ row.map["date"] = EndDate
              /\ \A m \in names, st \in RowStats :
                    row.map[m \o "_" \o st] = node.metrics.map[m].items.map[st]

\* A row of two metrics: name, date and ten statistics.
C10_Witness ==
    \E j \in 1..Len(all_metrics) :
        /\ Len(all_metrics[j].keys) = 12
        /\ all_metrics[j].map["time_open_count"] = 2

(***************************************************************************)
(* C11: POST /tasks, after any sequence of requests.  A request whose link  *)
(* is the link of a stored task is answered 400 'fail' and leaves the       *)
(* stored tasks as they are.  A request with a non-empty payload whose link *)
(* is not stored either adds exactly one task, of the payload's creator and *)
(* link, and is answered 201 'success', or, when the table refuses the row  *)
(* (a payload without creator or without link), is answered 400 'fail' and  *)
(* leaves the stored tasks as they are.  The statement as first made has    *)
(* every non-empty payload of a link not stored add a task and be answered  *)
(* 201.                                                                     *)
(***************************************************************************)
Stored(link) == \E j \in 1..Len(tasks) : tasks[j].link = link
Refused == reply'.code = 400 /\ reply'.status = "fail" /\ tasks' = tasks
Added(post_data) ==
    /\ reply'.code = 201 /\ reply'.status = "success"
    /\ Len(tasks') = Len(tasks) + 1
    /\ SubSeq(tasks', 1, Len(tasks)) = tasks
    /\ tasks'[Len(tasks')] = Task(Get(post_data, "creator"), Get(post_data, "link"))

Current(ref) == ref = <<(<<Org, Repo>>), issue_i>>

C12_Original ==
    [][\A ref \in IssueRefs :
          HasLeaf(ref) => (HasLeaf(ref)' /\ LeafMetrics(ref)' = LeafMetrics(ref))]_vars

C12_AttachedWhole ==
    [][\A ref \in IssueRefs :
          /\ (~HasLeaf(ref) /\ HasLeaf(ref)' /\ pc = "issues") =>
                /\ Current(ref)
                /\ LeafMetrics(ref)' = issue'.metrics
                /\ "time_open" \notin DOMAIN LeafMetrics(ref)'.map
          /\ HasLeaf(ref) =>
                /\ HasLeaf(ref)'
                /\ \A k \in DOMAIN LeafMetrics(ref).map :
                      /\ k \in DOMAIN LeafMetrics(ref)'.map
                      /\ LeafMetrics(ref)'.map[k] = LeafMetrics(ref).map[k]
                /\ DOMAIN LeafMetrics(ref)'.map \ DOMAIN LeafMetrics(ref).map
                      \subseteq {"time_open"}
                /\ LeafMetrics(ref)' # LeafMetrics(ref) =>
                      /\ pc = "time_open" /\ Current(ref)
                      /\ ~IssueOf(ref).closed]_vars

\* An open issue whose attached time_awaiting_resolution_feature has been
\* joined by time_open.
C12_Witness ==
    \E ref \in IssueRefs :
        /\ Processed(ref)
        /\ ~IssueOf(ref).closed
        /\ LeafKeys(ref) = {"time_awaiting_resolution_feature", "time_open"}

(***************************************************************************)
(* C13: output_google_sheet, for the header the sheet holds and the rows of *)
(* all_metrics.  The columns of the header read keep their positions and    *)
(* none is removed; the names that follow them are new, each appended once, *)
(* and each a key of some row; one row is written per summary row, and in   *)
(* every written row the value at position j is that summary row's value of *)
(* column header[j], None when it has no such key, for every j up to the    *)
(* row's length, which reaches every key the summary row has.               *)
(***************************************************************************)
Cell(row_metrics, metric_id) ==
    IF DictHas(row_metrics, metric_id) THEN row_metrics.map[metric_id] ELSE None

C13_SheetColumns ==
    pc = "done" =>
        /\ Len(response) <= Len(sheet_header)
        /\ SubSeq(sheet_header, 1, Len(response)) = response
        /\ \A j \in (Len(response) + 1)..Len(sheet_header) :
              /\ \A k \in 1..Len(sheet_header) :
                    sheet_header[k] = sheet_header[j] => k = j
              /\ \E r \in 1..Len(all_metrics) :
                    DictHas(all_metrics[r], sheet_header[j])
        /\ Len(sheet_values) = Len(all_metrics)
        /\ \A r \in 1..Len(sheet_values) :
              /\ Len(response) <= Len(sheet_values[r])
              /\ Len(sheet_values[r]) <= Len(sheet_header)
              /\ \A m \in DOMAIN all_metrics[r].map :
                    \E j \in 1..Len(sheet_values[r]) : sheet_header[j] = m
              /\ \A j \in 1..Len(sheet_values[r]) :
                    sheet_values[r][j] = Cell(all_metrics[r], sheet_header[j])

\* A sheet that had a header: columns were appended to it, a later row is
\* longer than the first, and a row has an empty cell under a column it has
\* no value for and a value under a column it knows.
C13_Witness ==
    /\ pc = "done"
    /\ response # <<>>
    /\ Len(sheet_header) > Len(response)
    /\ \E r \in 2..Len(sheet_values) :
           /\ Len(sheet_values[r]) > Len(sheet_values[1])
           /\ \E j, k \in 1..Len(response) :
                 /\ ~DictHas(all_metrics[r], sheet_header[j])
                 /\ DictHas(all_metrics[r], sheet_header[k])

====
